---- MODULE Spec2Model ----
(***************************************************************************)
(* State-machine model of the key-indexed containers of misc_utils.       *)
(*                                                                         *)
(* SlotMap (src/src/slotmap.rs): a Vec of three-state slots plus a free   *)
(* list of keys.  Every public method is one action; the arguments and    *)
(* the returned value of the last call are recorded in op / arg_key /     *)
(* arg_data / ret so that properties can speak about what a call returned.*)
(*                                                                         *)
(* KeyedVec (src/src/keyed_vec.rs) and SparseList (src/src/sparse_list.rs) *)
(* are modelled the same way.  The three containers share no state, so a  *)
(* behaviour of Spec, SpecKV or SpecSL exercises one of them and leaves   *)
(* the other two as constructed.                                           *)
(*                                                                         *)
(* Keys are their integer ids (Key::id / Key::from_id are the identity on *)
(* the wrapped usize, src/src/lib.rs:30-31).  Vec index i is position     *)
(* i + 1 of a TLA+ sequence.                                               *)
(***************************************************************************)
EXTENDS Integers, Sequences, FiniteSets

\* ------------------------------------------------------------------ bounds

\* Largest number of slots the model lets `inner` grow to.
MaxSlots == 3

\* Largest number of elements whose value one caller of a mutable iterator
\* of SparseList changes.
MaxAssign == 1

\* Largest number of slots of a SlotMap read back by Deserialize.
MaxDeSlots == 2

\* Largest number of elements the model lets KeyedVec.inner grow to.
MaxKvLen == 2

\* Number of distinct element values (T) callers pass in.
NumValues == 2

\* Largest number of elements one extend call is given.
MaxExtend == 2

\* Largest number of surplus decrements of SparseList.used_count (decrements
\* by remove or pop with no value leaving the list) the model follows.
MaxDeficit == 1

\* Key::invalid() is usize::MAX.  TLC integers are 32-bit, so the sentinel is
\* the largest integer TLC represents; the code only ever compares a key id
\* with inner.len(), which is far below either number.
UsizeMax == 2147483647

Values == 1 .. NumValues

\* Key ids callers pass in: every id up to one past the largest length
\* (in range or out of range, depending on the state) and the sentinel.
KeyInputs == (0 .. MaxSlots) \cup {UsizeMax}

\* ------------------------------------------------------------ Slot<T>

Slot_Value(t) == [tag |-> "Value", val |-> t]
Slot_Reserved == [tag |-> "Reserved", val |-> 0]
Slot_None     == [tag |-> "None", val |-> 0]

\* Option<T> / Option<K> and Result<(), T> as returned to the caller.
Some(t) == [tag |-> "Some", val |-> t]
None    == [tag |-> "None", val |-> 0]
Ok      == [tag |-> "Ok", val |-> 0]
Err(t)  == [tag |-> "Err", val |-> t]
\* K returned by insert / reserve_slot.
RetKey(k) == [tag |-> "Key", val |-> k]
\* Nothing returned yet (state after SlotMap::new()).
NoRet   == [tag |-> "Unit", val |-> 0]
\* &T / &mut T returned by Index::index / IndexMut::index_mut and by
\* KeyedVec::get / get_mut: the element referred to.
RetRef(t) == [tag |-> "Ref", val |-> t]

\* Slot::is_reserved
is_reserved_or_data(s) == s.tag # "None"
is_reserved(s) == s.tag = "Reserved"

\* Slot::has_data
has_data(s) == s.tag = "Value"

\* Slot::as_ref
as_ref_leaky(s) == IF s.tag = "None" THEN None ELSE Some(s.val)
as_ref(s) == IF s.tag = "Value" THEN Some(s.val) ELSE None

\* Slot::as_mut
as_mut(s) == IF s.tag = "Value" THEN Some(s.val) ELSE None

\* Slot::take: the slot becomes None whatever it was; the old value is
\* returned only if there was one.
take_keep(s) == [slot |-> s, out |-> IF s.tag = "Value" THEN Some(s.val) ELSE None]
take_any(s) == [slot |-> Slot_None, out |-> IF s.tag # "None" THEN Some(s.val) ELSE None]
take(s) == [slot |-> Slot_None, out |-> IF s.tag = "Value" THEN Some(s.val) ELSE None]

\* Slot::insert
slot_insert_noop(s, data) == s
slot_insert(s, data) == Slot_Value(data)

\* ------------------------------------------------------------ SlotMap

VARIABLES
    inner,      \* SlotMap.inner : Vec<Slot<T>>
    free,       \* SlotMap.free  : Vec<K>
    op,         \* name of the last method called
    arg_key,    \* its key argument (0 when it takes none)
    arg_data,   \* its data argument (0 when it takes none)
    ret,        \* what it returned
    panicked,   \* TRUE once a call aborted (Vec index out of bounds)
    issued,     \* history: keys returned so far by insert / reserve_slot
    freed,      \* history: keys whose Occupied slot remove() emptied and
                \* that no insert / reserve_slot has returned since, oldest first
    old_inner,  \* history: inner as it was when the last call started
    old_free    \* history: free as it was when the last call started

VARIABLES
    kv_inner,       \* KeyedVec.inner : Vec<T>
    old_kv_inner,   \* history: kv_inner when the last KeyedVec call started
    kv_orig,        \* history: the value each insert was given, by key
    kv_written      \* history: keys assigned through get_mut or index_mut

VARIABLES
    sl_inner,       \* SparseList.inner : Vec<Option<T>>
    used_count,     \* SparseList.used_count : usize
    old_sl_inner,   \* history: sl_inner when the last SparseList call started
    old_used_count, \* history: used_count when the last SparseList call started
    sl_iter,        \* the items the last call yielded, in order, if it was
                    \* one of the four iterators (empty after any other
                    \* call): values for iter() and iter_mut(), keys for
                    \* iter_keys() and iter_mut_with_keys()
    sl_high,        \* history: the greatest length the list has had; every
                    \* key push has returned and every position extend has
                    \* added is below it
    sl_live,        \* history: <<key, value>> of every element added and not
                    \* removed or popped since, in the order they were added;
                    \* the value is the one pushed, or the one a caller last
                    \* assigned to the element through a mutable iterator
    sl_popped,      \* history: TRUE once pop was called
    sl_removes      \* history: number of remove calls so far (2 stands for 2 or more)

VARIABLE
    overflow_checks \* build profile: TRUE if usize overflow aborts (debug
                    \* builds), FALSE if it wraps (release builds)

sm_state == <<inner, free, issued, freed, old_inner, old_free>>
kv_state == <<kv_inner, old_kv_inner, kv_orig, kv_written>>
sl_state == <<sl_inner, used_count, old_sl_inner, old_used_count, sl_iter,
              sl_high, sl_live, sl_popped, sl_removes>>

vars == <<inner, free, op, arg_key, arg_data, ret, panicked, issued, freed,
          old_inner, old_free, kv_state, sl_state, overflow_checks>>

\* Vec indexing: self.inner[id] aborts unless id < len.
InBounds(inr, id) == id < Len(inr)
SlotAt(inr, id) == inr[id + 1]
SetSlot(inr, id, s) == [inr EXCEPT ![id + 1] = s]

\* The sequence q without its entries equal to k.
Without(q, k) == SelectSeq(q, LAMBDA x : x # k)

\* SlotMap::get_slot: pop the free list (the slot of the popped key is left as
\* it is), else append a Reserved slot.  No method pushes onto the free list,
\* so from SlotMap::new() the first branch is never taken.
get_slot_last(inr, fr) ==
    IF fr # <<>>
    THEN [k |-> fr[Len(fr)], inner |-> inr, free |-> SubSeq(fr, 1, Len(fr) - 1)]
    ELSE IF Len(inr) = 0
    THEN [k |-> 0, inner |-> Append(inr, Slot_Reserved), free |-> fr]
    ELSE [k |-> Len(inr) - 1, inner |-> Append(inr, Slot_Reserved), free |-> fr]
get_slot_peek(inr, fr) ==
    IF fr # <<>>
    THEN [k |-> fr[Len(fr)], inner |-> inr, free |-> fr]
    ELSE [k |-> Len(inr), inner |-> Append(inr, Slot_Reserved), free |-> fr]
get_slot(inr, fr) ==
    IF fr # <<>>
    THEN [k |-> fr[Len(fr)], inner |-> inr, free |-> SubSeq(fr, 1, Len(fr) - 1)]
    ELSE [k |-> Len(inr), inner |-> Append(inr, Slot_Reserved), free |-> fr]

\* SlotMap::is_key_valid
is_key_valid_no_range(inr, k) ==
    IF k < Len(inr)
    THEN has_data(SlotAt(inr, k)) \/ is_reserved(SlotAt(inr, k))
    ELSE TRUE
is_key_valid(inr, k) ==
    IF k < Len(inr)
    THEN has_data(SlotAt(inr, k)) \/ is_reserved(SlotAt(inr, k))
    ELSE FALSE

\* SlotMap::new, KeyedVec::new and SparseList::new, in either build profile.
Init ==
    /\ inner = <<>>
    /\ free = <<>>
    /\ op = "new"
    /\ arg_key = 0
    /\ arg_data = 0
    /\ ret = NoRet
    /\ panicked = FALSE
    /\ issued = {}
    /\ freed = <<>>
    /\ old_inner = <<>>
    /\ old_free = <<>>
    /\ kv_inner = <<>>
    /\ old_kv_inner = <<>>
    /\ kv_orig = <<>>
    /\ kv_written = {}
    /\ sl_inner = <<>>
    /\ used_count = 0
    /\ old_sl_inner = <<>>
    /\ old_used_count = 0
    /\ sl_iter = <<>>
    /\ sl_high = 0
    /\ sl_live = <<>>
    /\ sl_popped = FALSE
    /\ sl_removes = 0
    /\ overflow_checks \in BOOLEAN

\* The record of a call: its name and arguments, and the map it started from.
Call(name, k, d) ==
    /\ op' = name
    /\ arg_key' = k
    /\ arg_data' = d
    /\ old_inner' = inner
    /\ old_free' = free
    /\ UNCHANGED <<kv_state, sl_state, overflow_checks>>

\* A call that aborts: nothing is returned.  inr and fr are the slots and the
\* free list as the call left them when it aborted.
Abort(name, k, d, inr, fr) ==
    /\ Call(name, k, d)
    /\ ret' = NoRet
    /\ panicked' = TRUE
    /\ inner' = inr
    /\ free' = fr
    /\ UNCHANGED <<issued, freed>>

\* SlotMap::insert: get_slot has already popped the free list (or appended a
\* slot) when indexing the slot of the key it returned aborts.
insert(data) ==
    /\ ~panicked
    /\ free # <<>> \/ Len(inner) < MaxSlots
    /\ LET g == get_slot(inner, free) IN
        IF ~InBounds(g.inner, g.k)
        THEN Abort("insert", 0, data, g.inner, g.free)
        ELSE /\ inner' = SetSlot(g.inner, g.k, slot_insert(SlotAt(g.inner, g.k), data))
             /\ free' = g.free
             /\ Call("insert", 0, data)
             /\ ret' = RetKey(g.k)
             /\ panicked' = FALSE
             /\ issued' = issued \cup {g.k}
             /\ freed' = Without(freed, g.k)

\* SlotMap::reserve_slot
reserve_slot ==
    /\ ~panicked
    /\ free # <<>> \/ Len(inner) < MaxSlots
    /\ LET g == get_slot(inner, free) IN
        /\ inner' = g.inner
        /\ free' = g.free
        /\ Call("reserve_slot", 0, 0)
        /\ ret' = RetKey(g.k)
        /\ panicked' = FALSE
        /\ issued' = issued \cup {g.k}
        /\ freed' = Without(freed, g.k)

\* SlotMap::insert_reserved
insert_reserved(key, data) ==
    /\ ~panicked
    /\ IF ~is_key_valid(inner, key)
       THEN /\ ret' = Err(data)
            /\ panicked' = FALSE
            /\ UNCHANGED <<inner, free>>
       ELSE IF ~InBounds(inner, key)
       THEN /\ ret' = NoRet
            /\ panicked' = TRUE
            /\ UNCHANGED <<inner, free>>
       ELSE IF ~is_reserved(SlotAt(inner, key))
       THEN /\ ret' = Err(data)
            /\ panicked' = FALSE
            /\ UNCHANGED <<inner, free>>
       ELSE /\ inner' = SetSlot(inner, key, slot_insert(SlotAt(inner, key), data))
            /\ ret' = Ok
            /\ panicked' = FALSE
            /\ UNCHANGED free
    /\ Call("insert_reserved", key, data)
    /\ UNCHANGED <<issued, freed>>

\* SlotMap::get
get(key) ==
    /\ ~panicked
    /\ IF ~is_key_valid(inner, key)
       THEN /\ ret' = None
            /\ panicked' = FALSE
       ELSE IF ~InBounds(inner, key)
       THEN /\ ret' = NoRet
            /\ panicked' = TRUE
       ELSE /\ ret' = as_ref(SlotAt(inner, key))
            /\ panicked' = FALSE
    /\ Call("get", key, 0)
    /\ UNCHANGED <<inner, free, issued, freed>>

\* SlotMap::get_mut.  The caller may assign through the returned &mut T:
\* w is the value the referenced element holds when the borrow ends (w equal
\* to the old value is a caller that only reads).
get_mut(key, w) ==
    /\ ~panicked
    /\ IF ~is_key_valid(inner, key)
       THEN /\ ret' = None
            /\ panicked' = FALSE
            /\ UNCHANGED inner
       ELSE IF ~InBounds(inner, key)
       THEN /\ ret' = NoRet
            /\ panicked' = TRUE
            /\ UNCHANGED inner
       ELSE /\ ret' = as_mut(SlotAt(inner, key))
            /\ panicked' = FALSE
            /\ inner' = IF as_mut(SlotAt(inner, key)) # None
                        THEN SetSlot(inner, key, Slot_Value(w))
                        ELSE inner
    /\ Call("get_mut", key, w)
    /\ UNCHANGED <<free, issued, freed>>

\* SlotMap::remove
remove_push_free(key) ==
    /\ ~panicked
    /\ Len(free) < MaxSlots
    /\ free' = Append(free, key)
    /\ IF ~is_key_valid(inner, key)
       THEN /\ ret' = None
            /\ UNCHANGED <<inner, freed>>
       ELSE /\ inner' = SetSlot(inner, key, take(SlotAt(inner, key)).slot)
            /\ ret' = take(SlotAt(inner, key)).out
            /\ freed' = IF has_data(SlotAt(inner, key))
                        THEN Append(Without(freed, key), key)
                        ELSE freed
    /\ Call("remove", key, 0)
    /\ UNCHANGED <<panicked, issued>>
remove(key) ==
    /\ ~panicked
    /\ IF ~is_key_valid(inner, key)
       THEN /\ ret' = None
            /\ panicked' = FALSE
            /\ UNCHANGED <<inner, free, freed>>
       ELSE IF ~InBounds(inner, key)
       THEN /\ ret' = NoRet
            /\ panicked' = TRUE
            /\ UNCHANGED <<inner, free, freed>>
       ELSE LET t == take(SlotAt(inner, key)) IN
            /\ inner' = SetSlot(inner, key, t.slot)
            /\ ret' = t.out
            /\ panicked' = FALSE
            /\ freed' = IF has_data(SlotAt(inner, key))
                        THEN Append(Without(freed, key), key)
                        ELSE freed
            /\ UNCHANGED free
    /\ Call("remove", key, 0)
    /\ UNCHANGED issued

\* SlotMap::key_of_last_item
key_of_last_item_len ==
    /\ ~panicked
    /\ ret' = IF Len(inner) = 0 THEN None ELSE Some(Len(inner))
    /\ Call("key_of_last_item", 0, 0)
    /\ UNCHANGED <<inner, free, panicked, issued, freed>>
key_of_last_item ==
    /\ ~panicked
    /\ ret' = IF Len(inner) = 0 THEN None ELSE Some(Len(inner) - 1)
    /\ Call("key_of_last_item", 0, 0)
    /\ UNCHANGED <<inner, free, panicked, issued, freed>>

\* Index::index for SlotMap: self.get(key).unwrap(), which aborts when get
\* returns None.
Index_index(key) ==
    /\ ~panicked
    /\ IF ~is_key_valid(inner, key)
       THEN Abort("index", key, 0, inner, free)
       ELSE IF ~InBounds(inner, key)
       THEN Abort("index", key, 0, inner, free)
       ELSE IF as_ref(SlotAt(inner, key)) = None
       THEN Abort("index", key, 0, inner, free)
       ELSE /\ ret' = RetRef(as_ref(SlotAt(inner, key)).val)
            /\ panicked' = FALSE
            /\ Call("index", key, 0)
            /\ UNCHANGED <<inner, free, issued, freed>>

\* IndexMut::index_mut for SlotMap: self.get_mut(key).unwrap().  As for
\* get_mut, w is the value the referenced element holds when the borrow ends
\* (m[key] = w).
IndexMut_index_mut(key, w) ==
    /\ ~panicked
    /\ IF ~is_key_valid(inner, key)
       THEN Abort("index_mut", key, w, inner, free)
       ELSE IF ~InBounds(inner, key)
       THEN Abort("index_mut", key, w, inner, free)
       ELSE IF as_mut(SlotAt(inner, key)) = None
       THEN Abort("index_mut", key, w, inner, free)
       ELSE /\ ret' = RetRef(as_mut(SlotAt(inner, key)).val)
            /\ panicked' = FALSE
            /\ inner' = SetSlot(inner, key, Slot_Value(w))
            /\ Call("index_mut", key, w)
            /\ UNCHANGED <<free, issued, freed>>

Next ==
    \/ \E v \in Values : insert(v)
    \/ reserve_slot
    \/ \E k \in KeyInputs, v \in Values : insert_reserved(k, v)
    \/ \E k \in KeyInputs : get(k)
    \/ \E k \in KeyInputs, w \in Values : get_mut(k, w)
    \/ \E k \in KeyInputs : remove(k)
    \/ key_of_last_item
    \/ \E k \in KeyInputs : Index_index(k)
    \/ \E k \in KeyInputs, w \in Values : IndexMut_index_mut(k, w)

Spec == Init /\ [][Next]_vars

\* ------------------------------------------------ SlotMap, deserialized

\* The slots a Vec<Slot<T>> holds.
Slots == {Slot_Value(v) : v \in Values} \cup {Slot_Reserved, Slot_None}

\* Key ids a serialized free list holds: every id up to one past the largest
\* length, and the sentinel.
DeKeys == (0 .. MaxDeSlots) \cup {UsizeMax}

\* The maps the derived Deserialize of SlotMap builds: it validates nothing,
\* so any slots and any free list (a key of a slot that is not None, a key
\* out of range, the same key twice).  This is how a SlotMap comes to have
\* keys in its free list (no method pushes onto it).
DeserializedMaps ==
    {[inner |-> inr, free |-> fr] :
        inr \in UNION {[1 .. n -> Slots] : n \in 0 .. MaxDeSlots},
        fr \in UNION {[1 .. n -> DeKeys] : n \in 0 .. MaxDeSlots}}

\* SlotMap::new, or a SlotMap read back by Deserialize, in either build
\* profile.
InitDe ==
    \/ Init
    \/ /\ \E m \in DeserializedMaps :
            /\ inner = m.inner
            /\ free = m.free
            /\ old_inner = m.inner
            /\ old_free = m.free
       /\ op = "deserialize"
       /\ arg_key = 0
       /\ arg_data = 0
       /\ ret = NoRet
       /\ panicked = FALSE
       /\ issued = {}
       /\ freed = <<>>
       /\ kv_inner = <<>>
       /\ old_kv_inner = <<>>
       /\ kv_orig = <<>>
       /\ kv_written = {}
       /\ sl_inner = <<>>
       /\ used_count = 0
       /\ old_sl_inner = <<>>
       /\ old_used_count = 0
       /\ sl_iter = <<>>
       /\ sl_high = 0
       /\ sl_live = <<>>
       /\ sl_popped = FALSE
       /\ sl_removes = 0
       /\ overflow_checks \in BOOLEAN

SpecDe == InitDe /\ [][Next]_vars

\* ------------------------------------------------------------ KeyedVec

\* The record of a KeyedVec call.
KvCall(name, k, d) ==
    /\ op' = name
    /\ arg_key' = k
    /\ arg_data' = d
    /\ old_kv_inner' = kv_inner
    /\ UNCHANGED <<sm_state, sl_state, overflow_checks>>

\* KeyedVec::insert
KeyedVec_insert_key_after(data) ==
    /\ ~panicked
    /\ Len(kv_inner) < MaxKvLen
    /\ kv_inner' = Append(kv_inner, data)
    /\ ret' = RetKey(Len(kv_inner'))
    /\ kv_orig' = Append(kv_orig, data)
    /\ KvCall("KeyedVec::insert", 0, data)
    /\ UNCHANGED <<panicked, kv_written>>
KeyedVec_insert(data) ==
    /\ ~panicked
    /\ Len(kv_inner) < MaxKvLen
    /\ kv_inner' = Append(kv_inner, data)
    /\ ret' = RetKey(Len(kv_inner))
    /\ kv_orig' = Append(kv_orig, data)
    /\ KvCall("KeyedVec::insert", 0, data)
    /\ UNCHANGED <<panicked, kv_written>>

\* KeyedVec::get: assert!(id < len) aborts in every build profile.
KeyedVec_get_soft(key) ==
    /\ ~panicked
    /\ ret' = IF key < Len(kv_inner) THEN RetRef(kv_inner[key + 1]) ELSE None
    /\ KvCall("KeyedVec::get", key, 0)
    /\ UNCHANGED <<panicked, kv_inner, kv_orig, kv_written>>
KeyedVec_get(key) ==
    /\ ~panicked
    /\ IF ~(key < Len(kv_inner))
       THEN /\ ret' = NoRet
            /\ panicked' = TRUE
       ELSE /\ ret' = RetRef(kv_inner[key + 1])
            /\ panicked' = FALSE
    /\ KvCall("KeyedVec::get", key, 0)
    /\ UNCHANGED <<kv_inner, kv_orig, kv_written>>

\* KeyedVec::get_mut.  As for SlotMap::get_mut, w is the value the referenced
\* element holds when the borrow ends.
KeyedVec_get_mut(key, w) ==
    /\ ~panicked
    /\ IF ~(key < Len(kv_inner))
       THEN /\ ret' = NoRet
            /\ panicked' = TRUE
            /\ UNCHANGED <<kv_inner, kv_written>>
       ELSE /\ ret' = RetRef(kv_inner[key + 1])
            /\ panicked' = FALSE
            /\ kv_inner' = [kv_inner EXCEPT ![key + 1] = w]
            /\ kv_written' = IF w # kv_inner[key + 1]
                             THEN kv_written \cup {key}
                             ELSE kv_written
    /\ KvCall("KeyedVec::get_mut", key, w)
    /\ UNCHANGED kv_orig

\* Index::index for KeyedVec: self.get(key).
KeyedVec_index(key) ==
    /\ ~panicked
    /\ IF ~(key < Len(kv_inner))
       THEN /\ ret' = NoRet
            /\ panicked' = TRUE
       ELSE /\ ret' = RetRef(kv_inner[key + 1])
            /\ panicked' = FALSE
    /\ KvCall("KeyedVec::index", key, 0)
    /\ UNCHANGED <<kv_inner, kv_orig, kv_written>>

\* IndexMut::index_mut for KeyedVec: self.get_mut(key).
KeyedVec_index_mut(key, w) ==
    /\ ~panicked
    /\ IF ~(key < Len(kv_inner))
       THEN /\ ret' = NoRet
            /\ panicked' = TRUE
            /\ UNCHANGED <<kv_inner, kv_written>>
       ELSE /\ ret' = RetRef(kv_inner[key + 1])
            /\ panicked' = FALSE
            /\ kv_inner' = [kv_inner EXCEPT ![key + 1] = w]
            /\ kv_written' = IF w # kv_inner[key + 1]
                             THEN kv_written \cup {key}
                             ELSE kv_written
    /\ KvCall("KeyedVec::index_mut", key, w)
    /\ UNCHANGED kv_orig

NextKV ==
    \/ \E v \in Values : KeyedVec_insert(v)
    \/ \E k \in KeyInputs : KeyedVec_get(k)
    \/ \E k \in KeyInputs, w \in Values : KeyedVec_get_mut(k, w)
    \/ \E k \in KeyInputs : KeyedVec_index(k)
    \/ \E k \in KeyInputs, w \in Values : KeyedVec_index_mut(k, w)

SpecKV == Init /\ [][NextKV]_vars

\* ------------------------------------------------------------ SparseList

\* usize arithmetic: x - n and x + n with the wrapped result and whether the
\* exact result is out of range (UsizeMax stands for usize::MAX).
sub_usize(x, n) ==
    [val |-> IF x < n THEN UsizeMax - (n - x) + 1 ELSE x - n, overflow |-> x < n]
add_usize(x, n) ==
    [val |-> IF x > UsizeMax - n THEN n - (UsizeMax - x) - 1 ELSE x + n,
     overflow |-> x > UsizeMax - n]

\* Number of positions of inr that hold a value.
RECURSIVE CountSome(_)
CountSome(inr) ==
    IF inr = <<>> THEN 0
    ELSE CountSome(Tail(inr)) + (IF Head(inr).tag = "Some" THEN 1 ELSE 0)

\* How many times used_count was decremented without a value leaving the list.
Deficit(inr, uc) ==
    IF uc <= CountSome(inr)
    THEN CountSome(inr) - uc
    ELSE CountSome(inr) + (UsizeMax - uc) + 1

\* Sequences a caller passes to extend.
ExtendInputs == UNION {[1 .. n -> Values] : n \in 0 .. MaxExtend}

\* The pairs of q whose key is not k.
WithoutKey(q, k) == SelectSeq(q, LAMBDA e : e[1] # k)

\* The record of a SparseList call.
SlCall(name, k, d) ==
    /\ op' = name
    /\ arg_key' = k
    /\ arg_data' = d
    /\ old_sl_inner' = sl_inner
    /\ old_used_count' = used_count
    /\ UNCHANGED <<sm_state, kv_state, overflow_checks>>

\* A SparseList call that aborts.
SlAbort ==
    /\ ret' = NoRet
    /\ panicked' = TRUE
    /\ sl_iter' = <<>>
    /\ UNCHANGED <<sl_high, sl_live, sl_popped, sl_removes>>

\* SparseList::push
SparseList_push(data) ==
    /\ ~panicked
    /\ Len(sl_inner) < MaxSlots
    /\ sl_inner' = Append(sl_inner, Some(data))
    /\ LET a == add_usize(used_count, 1) IN
        IF a.overflow /\ overflow_checks
        THEN SlAbort /\ UNCHANGED used_count
        ELSE /\ used_count' = a.val
             /\ ret' = RetKey(Len(sl_inner') - 1)
             /\ panicked' = FALSE
             /\ sl_high' = IF Len(sl_inner') > sl_high THEN Len(sl_inner') ELSE sl_high
             /\ sl_live' = Append(sl_live, <<Len(sl_inner') - 1, data>>)
             /\ sl_iter' = <<>>
             /\ UNCHANGED <<sl_popped, sl_removes>>
    /\ SlCall("SparseList::push", 0, data)

\* SparseList::remove (a variant that takes the position out of the Vec)
SparseList_remove_shift(index) ==
    /\ ~panicked
    /\ index < Len(sl_inner)
    /\ sl_inner[index + 1] # None
    /\ used_count' = sub_usize(used_count, 1).val
    /\ ret' = sl_inner[index + 1]
    /\ sl_inner' = SubSeq(sl_inner, 1, index) \o SubSeq(sl_inner, index + 2, Len(sl_inner))
    /\ panicked' = FALSE
    /\ sl_live' = WithoutKey(sl_live, index)
    /\ sl_removes' = IF sl_removes < 2 THEN sl_removes + 1 ELSE 2
    /\ sl_iter' = <<>>
    /\ UNCHANGED <<sl_high, sl_popped>>
    /\ SlCall("SparseList::remove", index, 0)

\* SparseList::remove: used_count is decremented first, then the position is
\* indexed and its value taken.
SparseList_remove(index) ==
    /\ ~panicked
    /\ (index < Len(sl_inner) /\ sl_inner[index + 1] = None)
        => Deficit(sl_inner, used_count) < MaxDeficit
    /\ LET d == sub_usize(used_count, 1) IN
        IF d.overflow /\ overflow_checks
        THEN SlAbort /\ UNCHANGED <<used_count, sl_inner>>
        ELSE IF ~(index < Len(sl_inner))
        THEN SlAbort /\ used_count' = d.val /\ UNCHANGED sl_inner
        ELSE /\ used_count' = d.val
             /\ ret' = sl_inner[index + 1]
             /\ sl_inner' = [sl_inner EXCEPT ![index + 1] = None]
             /\ panicked' = FALSE
             /\ sl_live' = WithoutKey(sl_live, index)
             /\ sl_removes' = IF sl_removes < 2 THEN sl_removes + 1 ELSE 2
             /\ sl_iter' = <<>>
             /\ UNCHANGED <<sl_high, sl_popped>>
    /\ SlCall("SparseList::remove", index, 0)

\* SparseList::pop: used_count is decremented first, then the last position
\* (if any) is removed and its content returned.
SparseList_pop ==
    /\ ~panicked
    /\ (sl_inner = <<>> \/ sl_inner[Len(sl_inner)] = None)
        => Deficit(sl_inner, used_count) < MaxDeficit
    /\ LET d == sub_usize(used_count, 1) IN
        IF d.overflow /\ overflow_checks
        THEN SlAbort /\ UNCHANGED <<used_count, sl_inner>>
        ELSE /\ used_count' = d.val
             /\ ret' = IF sl_inner = <<>> THEN None ELSE sl_inner[Len(sl_inner)]
             /\ sl_inner' = IF sl_inner = <<>> THEN sl_inner
                            ELSE SubSeq(sl_inner, 1, Len(sl_inner) - 1)
             /\ panicked' = FALSE
             /\ sl_live' = WithoutKey(sl_live, Len(sl_inner) - 1)
             /\ sl_popped' = TRUE
             /\ sl_iter' = <<>>
             /\ UNCHANGED <<sl_high, sl_removes>>
    /\ SlCall("SparseList::pop", 0, 0)

\* Extend::extend
SparseList_extend(vals) ==
    /\ ~panicked
    /\ Len(sl_inner) + Len(vals) <= MaxSlots
    /\ sl_inner' = sl_inner \o [i \in 1 .. Len(vals) |-> Some(vals[i])]
    /\ LET a == add_usize(used_count, Len(sl_inner') - Len(sl_inner)) IN
        IF a.overflow /\ overflow_checks
        THEN SlAbort /\ UNCHANGED used_count
        ELSE /\ used_count' = a.val
             /\ ret' = NoRet
             /\ panicked' = FALSE
             /\ sl_live' = sl_live \o
                    [i \in 1 .. Len(vals) |-> <<Len(sl_inner) + i - 1, vals[i]>>]
             /\ sl_iter' = <<>>
             /\ sl_high' = IF Len(sl_inner') > sl_high THEN Len(sl_inner') ELSE sl_high
             /\ UNCHANGED <<sl_popped, sl_removes>>
    /\ SlCall("SparseList::extend", 0, Len(vals))

\* SparseListIter::next from position pos (1-based) of the underlying slice
\* iterator: skip the positions that hold no value.
SparseListIter_next_stop(inr, pos) ==
    IF pos > Len(inr) THEN [item |-> None, pos |-> pos]
    ELSE IF inr[pos].tag = "Some" THEN [item |-> Some(inr[pos].val), pos |-> pos + 1]
    ELSE [item |-> None, pos |-> pos + 1]
RECURSIVE SparseListIter_next(_, _)
SparseListIter_next(inr, pos) ==
    IF pos > Len(inr) THEN [item |-> None, pos |-> pos]
    ELSE IF inr[pos].tag = "Some" THEN [item |-> Some(inr[pos].val), pos |-> pos + 1]
    ELSE SparseListIter_next(inr, pos + 1)

\* SparseListIterKeys::next: the same walk, yielding the index.
RECURSIVE SparseListIterKeys_next(_, _)
SparseListIterKeys_next(inr, pos) ==
    IF pos > Len(inr) THEN [item |-> None, pos |-> pos]
    ELSE IF inr[pos].tag = "Some" THEN [item |-> Some(pos - 1), pos |-> pos + 1]
    ELSE SparseListIterKeys_next(inr, pos + 1)

\* The items a caller collects by calling next until it returns None.
RECURSIVE CollectIter(_, _)
CollectIter(inr, pos) ==
    LET n == SparseListIter_next(inr, pos) IN
    IF n.item = None THEN <<>> ELSE <<n.item.val>> \o CollectIter(inr, n.pos)

RECURSIVE CollectIterKeys(_, _)
CollectIterKeys(inr, pos) ==
    LET n == SparseListIterKeys_next(inr, pos) IN
    IF n.item = None THEN <<>> ELSE <<n.item.val>> \o CollectIterKeys(inr, n.pos)

\* SparseList::iter, run to its end
SparseList_iter ==
    /\ ~panicked
    /\ sl_iter' = CollectIter(sl_inner, 1)
    /\ ret' = NoRet
    /\ SlCall("SparseList::iter", 0, 0)
    /\ UNCHANGED <<panicked, sl_inner, used_count, sl_high, sl_live, sl_popped, sl_removes>>

\* SparseList::iter_keys, run to its end
SparseList_iter_keys ==
    /\ ~panicked
    /\ sl_iter' = CollectIterKeys(sl_inner, 1)
    /\ ret' = NoRet
    /\ SlCall("SparseList::iter_keys", 0, 0)
    /\ UNCHANGED <<panicked, sl_inner, used_count, sl_high, sl_live, sl_popped, sl_removes>>

\* SparseListIterMut::next: the same walk as SparseListIter::next, yielding a
\* mutable reference to the value (item is the value it refers to; the
\* position referred to is pos - 1 of the result).
RECURSIVE SparseListIterMut_next(_, _)
SparseListIterMut_next(inr, pos) ==
    IF pos > Len(inr) THEN [item |-> None, pos |-> pos]
    ELSE IF inr[pos].tag = "Some" THEN [item |-> Some(inr[pos].val), pos |-> pos + 1]
    ELSE SparseListIterMut_next(inr, pos + 1)

\* SparseListIterMutKeys::next: the same walk, yielding the index together
\* with the mutable reference to the value at that index.
RECURSIVE SparseListIterMutKeys_next(_, _)
SparseListIterMutKeys_next(inr, pos) ==
    IF pos > Len(inr) THEN [item |-> None, pos |-> pos]
    ELSE IF inr[pos].tag = "Some" THEN [item |-> Some(pos - 1), pos |-> pos + 1]
    ELSE SparseListIterMutKeys_next(inr, pos + 1)

\* The values a caller is handed by calling SparseListIterMut::next until it
\* returns None, and the list once the caller has assigned ws[i] through the
\* i-th reference (ws[i] equal to the value referred to is a caller that only
\* reads it).
RECURSIVE CollectIterMut(_, _)
CollectIterMut(inr, pos) ==
    LET n == SparseListIterMut_next(inr, pos) IN
    IF n.item = None THEN <<>> ELSE <<n.item.val>> \o CollectIterMut(inr, n.pos)

RECURSIVE AssignIterMut(_, _, _)
AssignIterMut(inr, pos, ws) ==
    LET n == SparseListIterMut_next(inr, pos) IN
    IF n.item = None \/ ws = <<>> THEN inr
    ELSE AssignIterMut([inr EXCEPT ![n.pos - 1] = Some(Head(ws))], n.pos, Tail(ws))

\* The same for SparseListIterMutKeys::next: the keys handed out, and the list
\* after the assignments.
RECURSIVE CollectIterMutKeys(_, _)
CollectIterMutKeys(inr, pos) ==
    LET n == SparseListIterMutKeys_next(inr, pos) IN
    IF n.item = None THEN <<>> ELSE <<n.item.val>> \o CollectIterMutKeys(inr, n.pos)

RECURSIVE AssignIterMutKeys(_, _, _)
AssignIterMutKeys(inr, pos, ws) ==
    LET n == SparseListIterMutKeys_next(inr, pos) IN
    IF n.item = None \/ ws = <<>> THEN inr
    ELSE AssignIterMutKeys([inr EXCEPT ![n.item.val + 1] = Some(Head(ws))], n.pos, Tail(ws))

\* What callers assign through the references of a mutable iterator: one
\* value for each position of inr that holds a value (the value the position
\* holds already, for a reference the caller only reads or never asks for),
\* at most MaxAssign of them different from the value held.
AssignInputs(inr) ==
    LET cur == CollectIter(inr, 1) IN
    {ws \in [1 .. Len(cur) -> Values] :
        Cardinality({i \in 1 .. Len(cur) : ws[i] # cur[i]}) <= MaxAssign}

\* The surviving elements after a caller assigned ws[i] to the i-th of them.
Assigned(live, ws) ==
    [i \in 1 .. Len(live) |->
        <<live[i][1], IF i <= Len(ws) THEN ws[i] ELSE live[i][2]>>]

\* SparseList::iter_mut, run to its end, the caller assigning through every
\* reference it is handed
SparseList_iter_mut(ws) ==
    /\ ~panicked
    /\ sl_iter' = CollectIterMut(sl_inner, 1)
    /\ sl_inner' = AssignIterMut(sl_inner, 1, ws)
    /\ sl_live' = Assigned(sl_live, ws)
    /\ ret' = NoRet
    /\ SlCall("SparseList::iter_mut", 0, 0)
    /\ UNCHANGED <<panicked, used_count, sl_high, sl_popped, sl_removes>>

\* SparseList::iter_mut_with_keys, run to its end, the caller assigning
\* through every reference it is handed
SparseList_iter_mut_with_keys(ws) ==
    /\ ~panicked
    /\ sl_iter' = CollectIterMutKeys(sl_inner, 1)
    /\ sl_inner' = AssignIterMutKeys(sl_inner, 1, ws)
    /\ sl_live' = Assigned(sl_live, ws)
    /\ ret' = NoRet
    /\ SlCall("SparseList::iter_mut_with_keys", 0, 0)
    /\ UNCHANGED <<panicked, used_count, sl_high, sl_popped, sl_removes>>

NextSL ==
    \/ \E v \in Values : SparseList_push(v)
    \/ \E i \in KeyInputs : SparseList_remove(i)
    \/ SparseList_pop
    \/ \E vals \in ExtendInputs : SparseList_extend(vals)
    \/ SparseList_iter
    \/ SparseList_iter_keys
    \/ \E ws \in AssignInputs(sl_inner) : SparseList_iter_mut(ws)
    \/ \E ws \in AssignInputs(sl_inner) : SparseList_iter_mut_with_keys(ws)

SpecSL == Init /\ [][NextSL]_vars

\* KeyedVec or SparseList: a behaviour exercises one of the two containers.
KeyedVecOps == {"KeyedVec::insert", "KeyedVec::get", "KeyedVec::get_mut",
                "KeyedVec::index", "KeyedVec::index_mut"}
SparseListOps == {"SparseList::push", "SparseList::remove", "SparseList::pop",
                  "SparseList::extend", "SparseList::iter", "SparseList::iter_keys",
                  "SparseList::iter_mut", "SparseList::iter_mut_with_keys"}

NextKVSL ==
    \/ op \notin SparseListOps /\ NextKV
    \/ op \notin KeyedVecOps /\ NextSL

SpecKVSL == Init /\ [][NextKVSL]_vars

\* ------------------------------------------------------------ properties

\* Ids of the slots of inr.
Ids(inr) == 0 .. Len(inr) - 1

\* The state of slot k of inr, for k in range.
Occupied(inr, k) == InBounds(inr, k) /\ SlotAt(inr, k).tag = "Value"
Reserved(inr, k) == InBounds(inr, k) /\ SlotAt(inr, k) = Slot_Reserved
Empty(inr, k) == InBounds(inr, k) /\ SlotAt(inr, k) = Slot_None

\* The keys in the sequence q.
Range(q) == {q[i] : i \in 1 .. Len(q)}

\* Every slot of a other than slot k is the same slot in b.
SameExcept(a, b, k) ==
    /\ Len(a) = Len(b)
    /\ \A j \in Ids(a) : j # k => SlotAt(a, j) = SlotAt(b, j)

\* C1: whenever a key freed by remove (from an Occupied slot) is still waiting
\* to be reused, the next insert or reserve_slot returns the most recently
\* freed such key and appends no slot.
C1_ReuseFreedKeyLIFO ==
    [][(freed # <<>> /\ op' \in {"insert", "reserve_slot"})
        => (ret' = RetKey(freed[Len(freed)]) /\ Len(inner') = Len(inner))]_vars

\* C2: insert(v) returns a key whose slot is Occupied(v) and changes no other
\* slot; an Occupied slot keeps its value across every call except remove or
\* get_mut on its own key; and get on an Occupied slot returns its value.
C2_InsertOccupies ==
    /\ op = "insert" =>
        /\ ret.tag = "Key"
        /\ InBounds(inner, ret.val)
        /\ SlotAt(inner, ret.val) = Slot_Value(arg_data)
        /\ \A j \in Ids(old_inner) : j # ret.val => SlotAt(inner, j) = SlotAt(old_inner, j)
    /\ \A k \in Ids(old_inner) :
        (Occupied(old_inner, k) /\ ~(op \in {"remove", "get_mut", "index_mut"} /\ arg_key = k))
            => (InBounds(inner, k) /\ SlotAt(inner, k) = SlotAt(old_inner, k))
    /\ (op = "get" /\ Occupied(old_inner, arg_key))
        => ret = Some(SlotAt(old_inner, arg_key).val)

\* A get that returns the value of its key after another key was removed.
C2_Witness ==
    /\ op = "get"
    /\ ret.tag = "Some"
    /\ arg_key \in issued
    /\ \E j \in Ids(inner) : j # arg_key /\ j \in Range(freed)

\* C3: insert_reserved on a key that is out of range or whose slot is not
\* Reserved returns Err with the value passed in and leaves every slot and
\* the free list as they were.
C3_InsertReservedFailure ==
    (op = "insert_reserved" /\ ~Reserved(old_inner, arg_key))
    => (ret = Err(arg_data) /\ inner = old_inner /\ free = old_free /\ ~panicked)

\* insert_reserved on an Occupied slot holding another value failed.
C3_Witness ==
    /\ op = "insert_reserved"
    /\ ret = Err(arg_data)
    /\ Occupied(old_inner, arg_key)
    /\ SlotAt(inner, arg_key).val # arg_data

\* C4: reserve_slot, whether it appends a slot or takes a key from the free
\* list, returns a key whose slot is Reserved; insert_reserved on a Reserved
\* slot returns Ok and makes it Occupied(v); after that get on the key
\* returns v and a second insert_reserved on it fails.
C4_TwoPhaseInsert ==
    /\ op = "reserve_slot" =>
        /\ ret.tag = "Key"
        /\ Reserved(inner, ret.val)
    /\ (op = "insert_reserved" /\ Reserved(old_inner, arg_key))
        => (ret = Ok /\ SlotAt(inner, arg_key) = Slot_Value(arg_data))
    /\ (op = "get" /\ Occupied(old_inner, arg_key))
        => ret = Some(SlotAt(old_inner, arg_key).val)
    /\ (op = "insert_reserved" /\ ret = Ok)
        => Reserved(old_inner, arg_key)

\* C5: get and get_mut return a value exactly when the slot of the key is
\* Occupied (the value it holds); for a Reserved or Empty slot or a key out
\* of range they return none.
C5_GetOnlyOccupied ==
    op \in {"get", "get_mut"} =>
        IF Occupied(old_inner, arg_key)
        THEN ret = Some(SlotAt(old_inner, arg_key).val)
        ELSE ret = None

\* get on a Reserved slot returned none.
C5_Witness ==
    /\ op = "get"
    /\ ret = None
    /\ Reserved(inner, arg_key)

\* C6: remove on an Occupied(v) slot returns v, makes that slot Empty and
\* changes no other slot; get on a key removed this way and not issued again
\* returns none.
C6_RemoveOccupied ==
    /\ (op = "remove" /\ Occupied(old_inner, arg_key))
        => /\ ret = Some(SlotAt(old_inner, arg_key).val)
           /\ SlotAt(inner, arg_key) = Slot_None
           /\ SameExcept(old_inner, inner, arg_key)
    /\ (op = "get" /\ arg_key \in Range(freed)) => ret = None

\* remove returned the value of an Occupied slot while another slot holds one.
C6_Witness ==
    /\ op = "remove"
    /\ ret.tag = "Some"
    /\ SlotAt(inner, arg_key) = Slot_None
    /\ \E j \in Ids(inner) : j # arg_key /\ Occupied(inner, j)

\* C7 as stated: remove on a key that is out of range or whose slot is
\* Reserved or Empty returns none and leaves every slot and the free list
\* as they were.
C7_RemoveNotOccupiedNoChange ==
    (op = "remove" /\ ~Occupied(old_inner, arg_key))
    => (ret = None /\ inner = old_inner /\ free = old_free)

\* C7 amended: remove on a key that is out of range or whose slot is Empty
\* returns none and changes nothing; on a Reserved slot it returns none and
\* makes that slot Empty, every other slot and the free list staying as they
\* were.
C7_RemoveNotOccupied ==
    (op = "remove" /\ ~Occupied(old_inner, arg_key))
    => /\ ret = None
       /\ free = old_free
       /\ IF Reserved(old_inner, arg_key)
          THEN SlotAt(inner, arg_key) = Slot_None /\ SameExcept(old_inner, inner, arg_key)
          ELSE inner = old_inner

\* remove on a Reserved slot returned none.
C7_Witness ==
    /\ op = "remove"
    /\ ret = None
    /\ Reserved(old_inner, arg_key)

\* C8: remove on an already-removed or never-issued key returns none and
\* leaves the free list as it was; no key is in the free list twice and no
\* key in it has a Reserved or Occupied slot.
C8_RemoveKeepsFreeList ==
    /\ (op = "remove" /\ (arg_key \notin issued \/ Empty(old_inner, arg_key)))
        => (ret = None /\ free = old_free)
    /\ \A i, j \in 1 .. Len(free) : free[i] = free[j] => i = j
    /\ \A i \in 1 .. Len(free) :
        ~(Reserved(inner, free[i]) \/ Occupied(inner, free[i]))

\* remove on a key that an earlier remove had already emptied.
C8_Witness ==
    /\ op = "remove"
    /\ ret = None
    /\ arg_key \in Range(freed)
    /\ Empty(old_inner, arg_key)

\* C9: key_of_last_item returns none exactly when no slot was ever handed
\* out, otherwise the key of the last slot whatever its state, and changes
\* nothing.
C9_KeyOfLastItem ==
    op = "key_of_last_item" =>
        /\ inner = old_inner
        /\ free = old_free
        /\ ret = None <=> issued = {}
        /\ issued # {} => ret = Some(Len(inner) - 1)

\* key_of_last_item returned the key of a last slot that is Empty.
C9_Witness ==
    /\ op = "key_of_last_item"
    /\ ret.tag = "Some"
    /\ Len(inner) > 1
    /\ SlotAt(inner, ret.val) = Slot_None

\* C10: no call aborts: get, get_mut and remove return Some or None and
\* insert_reserved returns Ok or Err, whatever key they are given.
C10_SoftFailuresNeverPanic ==
    /\ op \in {"get", "get_mut", "remove", "insert_reserved"} => ~panicked
    /\ op \in {"get", "get_mut", "remove"} => ret.tag \in {"Some", "None"}
    /\ op = "insert_reserved" => ret.tag \in {"Ok", "Err"}

\* remove given the invalid sentinel returned none.
C10_Witness ==
    /\ op = "remove"
    /\ arg_key = UsizeMax
    /\ ret = None
    /\ Len(inner) > 0
    /\ ~panicked

\* The free list fr is in order for the slots inr: every key in it is in
\* range and its slot is Empty, and no key is in it twice.
FreeListInOrder(inr, fr) ==
    /\ \A i \in 1 .. Len(fr) : Empty(inr, fr[i])
    /\ \A i, j \in 1 .. Len(fr) : fr[i] = fr[j] => i = j

\* C17, step part: a call on a map whose free list is in order leaves it in
\* order, and a key that insert or reserve_slot takes from the free list is
\* the last key of the list and the key of an Empty slot.
C17_FreeListStep ==
    FreeListInOrder(inner, free) =>
        /\ FreeListInOrder(inner', free')
        /\ (op' \in {"insert", "reserve_slot"} /\ free # <<>>)
            => (ret' = RetKey(free[Len(free)]) /\ Empty(inner, ret'.val))

\* C17: the free list of a new map is in order and every call keeps it in
\* order, so in every state reached from new (or from a deserialized map
\* whose free list is in order) every key in the free list is in range and
\* its slot is Empty, and a key popped for reuse is the key of an Empty slot.
C17_FreeListEmptySlots ==
    [](op = "new" => FreeListInOrder(inner, free)) /\ [][C17_FreeListStep]_vars

\* insert took a key from a free list of two keys and filled its slot, the
\* other key staying in the free list with its slot Empty.
C17_Witness ==
    /\ op = "insert"
    /\ Len(old_free) = 2
    /\ ret = RetKey(old_free[2])
    /\ Empty(old_inner, ret.val)
    /\ Occupied(inner, ret.val)
    /\ free = <<old_free[1]>>
    /\ Empty(inner, free[1])

\* C18: remove on a Reserved slot returns none and makes the slot Empty;
\* insert_reserved on a slot that is Empty fails and hands the value back.
C18_RemoveReserved ==
    /\ (op = "remove" /\ Reserved(old_inner, arg_key))
        => (ret = None /\ Empty(inner, arg_key))
    /\ (op = "insert_reserved" /\ Empty(old_inner, arg_key))
        => (ret = Err(arg_data) /\ Empty(inner, arg_key))

\* insert_reserved failed on a slot that was Reserved and then removed (the
\* slot is Empty without ever having held a value that remove took out).
C18_Witness ==
    /\ op = "insert_reserved"
    /\ ret = Err(arg_data)
    /\ arg_key \in issued
    /\ arg_key \notin Range(freed)
    /\ Empty(inner, arg_key)

\* C19: the key insert or reserve_slot returns is not the key of a slot that
\* was Reserved or Occupied before the call, and the call leaves every slot
\* that was Reserved or Occupied as it was.
C19_IssuedKeyNotLive ==
    op \in {"insert", "reserve_slot"} =>
        /\ ret.tag = "Key"
        /\ ~Reserved(old_inner, ret.val)
        /\ ~Occupied(old_inner, ret.val)
        /\ \A k \in Ids(old_inner) :
            (Reserved(old_inner, k) \/ Occupied(old_inner, k))
                => (InBounds(inner, k) /\ SlotAt(inner, k) = SlotAt(old_inner, k))

\* insert returned a key while one slot was Occupied and another Reserved.
C19_Witness ==
    /\ op = "insert"
    /\ \E j, k \in Ids(old_inner) : Occupied(old_inner, j) /\ Reserved(old_inner, k)
    /\ Occupied(inner, ret.val)

\* C11: each KeyedVec insert returns the length before it; every key issued
\* holds the value its insert was given unless a get_mut caller assigned to
\* that key, and get returns the element of its key; the length never
\* decreases.
C11_KeyedVecInsertGet ==
    /\ op = "KeyedVec::insert" =>
        /\ ret = RetKey(Len(old_kv_inner))
        /\ Len(kv_inner) = Len(old_kv_inner) + 1
        /\ kv_inner[ret.val + 1] = arg_data
    /\ Len(kv_inner) >= Len(old_kv_inner)
    /\ Len(kv_inner) = Len(kv_orig)
    /\ \A k \in Ids(kv_orig) : k \notin kv_written => kv_inner[k + 1] = kv_orig[k + 1]
    /\ (op = "KeyedVec::get" /\ arg_key < Len(old_kv_inner))
        => /\ ret = RetRef(old_kv_inner[arg_key + 1])
           /\ arg_key \notin kv_written => ret = RetRef(kv_orig[arg_key + 1])

\* get returned the value first inserted under an early key after later
\* inserts and an assignment through get_mut to another key.
C11_Witness ==
    /\ op = "KeyedVec::get"
    /\ ret.tag = "Ref"
    /\ Len(kv_inner) = MaxKvLen
    /\ arg_key = 0
    /\ arg_key \notin kv_written
    /\ kv_written # {}
    /\ ret.val = kv_orig[1]

\* C12: KeyedVec get / get_mut with a key id not below the length, and
\* SparseList remove with an index not below the allocated length, abort:
\* nothing is returned and the elements are as they were.
C12_OutOfRangeIsFatal ==
    /\ (op \in {"KeyedVec::get", "KeyedVec::get_mut"} /\ ~(arg_key < Len(old_kv_inner)))
        => (panicked /\ ret = NoRet /\ kv_inner = old_kv_inner)
    /\ (op = "SparseList::remove" /\ ~(arg_key < Len(old_sl_inner)))
        => (panicked /\ ret = NoRet /\ sl_inner = old_sl_inner)

\* SparseList remove aborted on the index one past the last position.
C12_Witness ==
    /\ op = "SparseList::remove"
    /\ panicked
    /\ old_used_count > 0
    /\ old_sl_inner # <<>>
    /\ arg_key = Len(old_sl_inner)

\* C13: as long as no call aborted, used_count equals the number of positions
\* that hold a value, and remove decrements it only if the position held one.
C13_UsedCountIsOccupancy ==
    ~panicked =>
        /\ used_count = CountSome(sl_inner)
        /\ (op = "SparseList::remove" /\ old_sl_inner[arg_key + 1] = None)
            => used_count = old_used_count

\* C14: pop on a non-empty list removes the last position; if that position
\* was a tombstone it returns none and leaves used_count as it was, if it
\* held a value it returns the value and decrements used_count by one.
C14_PopLastPosition ==
    (op = "SparseList::pop" /\ old_sl_inner # <<>>) =>
        /\ ~panicked
        /\ sl_inner = SubSeq(old_sl_inner, 1, Len(old_sl_inner) - 1)
        /\ ret = old_sl_inner[Len(old_sl_inner)]
        /\ IF old_sl_inner[Len(old_sl_inner)] = None
           THEN used_count = old_used_count
           ELSE used_count + 1 = old_used_count

\* The values of the pairs of q, and their keys.
ValuesOf(q) == [i \in 1 .. Len(q) |-> q[i][2]]
KeysOf(q) == [i \in 1 .. Len(q) |-> q[i][1]]

\* C15: iter() yields the values added and not removed (each as pushed, or as
\* a caller last assigned it through a mutable iterator), in the order they
\* were added; iter_keys() yields their keys, in increasing order; after
\* push(a); push(b); push(c); remove(1) iter() yields <<a, c>>, used_count is
\* 2 and the allocated length is 3.
C15_IterationOrder ==
    /\ op = "SparseList::iter" => sl_iter = ValuesOf(sl_live)
    /\ op = "SparseList::iter_keys" =>
        /\ sl_iter = KeysOf(sl_live)
        /\ \A i, j \in 1 .. Len(sl_iter) : i < j => sl_iter[i] < sl_iter[j]
    /\ (op = "SparseList::iter" /\ ~sl_popped /\ sl_removes = 1
            /\ Len(sl_inner) = 3 /\ sl_inner[2] = None)
        => /\ sl_iter = <<sl_inner[1].val, sl_inner[3].val>>
           /\ sl_inner[1].tag = "Some" /\ sl_inner[3].tag = "Some"
           /\ used_count = 2

\* iter() after three elements were added and remove(1) was called.
C15_Witness ==
    /\ op = "SparseList::iter"
    /\ ~sl_popped
    /\ sl_removes = 1
    /\ sl_high = 3
    /\ sl_inner[2] = None
    /\ Len(sl_iter) = 2
    /\ sl_iter[1] # sl_iter[2]

\* C16, state part: push does not abort, returns the new length minus one
\* and increments used_count by one (as usize); push, extend and remove (and
\* the read-only iterators) leave every position that holds a value holding
\* it, but for the position remove is given; as long as pop was never
\* called, the key of every surviving element refers to its value (as
\* pushed, or as a caller last assigned it through a mutable iterator).
C16_PushState ==
    /\ op = "SparseList::push" =>
        /\ ~panicked
        /\ Len(sl_inner) = Len(old_sl_inner) + 1
        /\ ret = RetKey(Len(sl_inner) - 1)
        /\ sl_inner[ret.val + 1] = Some(arg_data)
        /\ used_count = IF old_used_count = UsizeMax THEN 0 ELSE old_used_count + 1
    /\ op \in {"SparseList::push", "SparseList::extend", "SparseList::remove",
               "SparseList::iter", "SparseList::iter_keys"} =>
        \A k \in 0 .. Len(old_sl_inner) - 1 :
            (old_sl_inner[k + 1] # None /\ ~(op = "SparseList::remove" /\ arg_key = k))
                => (k < Len(sl_inner) /\ sl_inner[k + 1] = old_sl_inner[k + 1])
    /\ (~sl_popped /\ ~panicked) =>
        \A i \in 1 .. Len(sl_live) :
            /\ sl_live[i][1] < Len(sl_inner)
            /\ sl_inner[sl_live[i][1] + 1] = Some(sl_live[i][2])

\* C16, step part: as long as pop was never called, push returns a key that
\* is not below any length the list has had, so a key that no earlier push
\* returned and no position added earlier has.
C16_PushStep ==
    (op' = "SparseList::push" /\ ~sl_popped' /\ ~panicked')
        => (~(ret'.val < sl_high) /\ ~(ret'.val < Len(sl_inner)))

\* C16: push returns the new length minus one and increments used_count;
\* with no pop, every push returns a fresh key and surviving keys keep
\* referring to their values.
C16_PushFreshKey == [](C16_PushState) /\ [][C16_PushStep]_vars

\* push returned a key after a remove left a tombstone, a later element
\* surviving.
C16_Witness ==
    /\ op = "SparseList::push"
    /\ ~sl_popped
    /\ sl_removes = 1
    /\ old_sl_inner # <<>>
    /\ old_sl_inner[1] = None
    /\ Len(sl_live) >= 2

\* C20: pop on a list with no positions and used_count 0 returns none and
\* leaves the list with no positions and used_count 0.
C20_PopOnEmpty ==
    (op = "SparseList::pop" /\ old_sl_inner = <<>> /\ old_used_count = 0)
        => (~panicked /\ ret = None /\ sl_inner = <<>> /\ used_count = 0)

====
